---- MODULE Spec2Model ----
(***************************************************************************)
(* tensorflow_datasets/core/features/sequence_feature.py                   *)
(*                                                                         *)
(* The Sequence feature connector: schema derivation (get_tensor_info,     *)
(* get_serialized_info), encode_example (transposition of a nested         *)
(* dict[list] into a list[nested dict], per-step encoding by the inner     *)
(* feature, merge of the per-step outputs) and decode_example (tf.map_fn   *)
(* of the inner decoder over the leading dimension).                       *)
(*                                                                         *)
(* Python values are modelled as tagged records; field k is the tag:       *)
(*   "dict"       d: function from keys to values                          *)
(*   "list"       v: sequence of values          (python list)             *)
(*   "tuple"      v: sequence of values          (python tuple)            *)
(*   "ndarray"    shape, data (row-major)        (numpy array / tf.Tensor) *)
(*   "str"        s                              (python str)              *)
(*   "int"        v                              (python int)              *)
(*   "bytes"      v                              (python bytes)            *)
(*   "TensorInfo" shape, dtype                   (feature_lib.TensorInfo)  *)
(*   "raise"      exc, msg, got, type            (a raised exception)      *)
(***************************************************************************)
EXTENDS Integers, Sequences, FiniteSets, TLC

VARIABLES
  feature,            \* self._feature, the inner feature connector
  length,             \* self._length, None or a static length
  pc,                 \* position of the running call
  example,            \* example_dict given to encode_example
  sequence_elements,  \* encode_example's local, before and after line 143
  next_elem,          \* position of the list comprehension of lines 143-146
  calls,              \* records handed to self.feature.encode_example, in order
  result,             \* value returned by encode_example
  error,              \* exception that left encode_example
  info,               \* value returned by get_tensor_info / get_serialized_info
  tfexample_dict,     \* argument of decode_example
  started,            \* tf.map_fn: iterations entered so far
  inflight,           \* tf.map_fn: iterations entered and not completed
  accs_ta,            \* tf.map_fn: the output TensorArray, index -> value
  decoded             \* value returned by decode_example

vars == <<feature, length, pc, example, sequence_elements, next_elem, calls,
          result, error, info, tfexample_dict, started, inflight, accs_ta,
          decoded>>

(***************************************************************************)
(* Bounds of the model                                                     *)
(***************************************************************************)
MaxLen == 2

(***************************************************************************)
(* Python values                                                           *)
(***************************************************************************)
None == -1

NoValue == [k |-> "None"]

Dict(d) == [k |-> "dict", d |-> d]

List(s) == [k |-> "list", v |-> s]

Tuple(s) == [k |-> "tuple", v |-> s]

Ndarray(shape, data) == [k |-> "ndarray", shape |-> shape, data |-> data]

PyStr(s) == [k |-> "str", s |-> s]

PyInt(n) == [k |-> "int", v |-> n]

PyBytes(n) == [k |-> "bytes", v |-> n]

TensorInfo(shape, dtype) == [k |-> "TensorInfo", shape |-> shape, dtype |-> dtype]

Raise(exc, msg, got, type) ==
  [k |-> "raise", exc |-> exc, msg |-> msg, got |-> got, type |-> type]

IsDict(x) == x.k = "dict"

IsRaise(x) == x.k = "raise"

IsNdarray(x) == x.k = "ndarray"

\* Iteration order of the dicts of the model (insertion order).
KeyOrder == <<"frame", "rgb", "action", "u", "w">>

OrderedKeys(S) == SelectSeq(KeyOrder, LAMBDA key : key \in S)

RECURSIVE Prod(_)
Prod(shape) == IF shape = <<>> THEN 1 ELSE Head(shape) * Prod(Tail(shape))

RECURSIVE Flatten(_)
Flatten(ss) == IF ss = <<>> THEN <<>> ELSE Head(ss) \o Flatten(Tail(ss))

RECURSIVE Reverse(_)
Reverse(s) == IF s = <<>> THEN <<>> ELSE Append(Reverse(Tail(s)), Head(s))

\* a[i] for an ndarray a (positions are 1-based in the model)
ArrayItem(a, i) ==
  LET sub == Tail(a.shape)
      n   == Prod(sub)
  IN Ndarray(sub, SubSeq(a.data, (i - 1) * n + 1, i * n))

(***************************************************************************)
(* utils.map_nested, utils.zip_dict                                        *)
(***************************************************************************)
\* The leaves of a nested dict, in iteration order.
RECURSIVE Leaves(_)
Leaves(t) ==
  IF IsDict(t)
  THEN Flatten([j \in 1..Len(OrderedKeys(DOMAIN t.d)) |->
                  Leaves(t.d[OrderedKeys(DOMAIN t.d)[j]])])
  ELSE <<t>>

\* The values at the leaves of a nested dict
LeafSet(t) == {Leaves(t)[j] : j \in 1..Len(Leaves(t))}

\* The first exception among the values of a sequence, or NoValue.
FirstRaise(s) ==
  IF \E j \in 1..Len(s) : IsRaise(s[j])
  THEN s[CHOOSE j \in 1..Len(s) :
           IsRaise(s[j]) /\ \A h \in 1..(j - 1) : ~IsRaise(s[h])]
  ELSE NoValue

\* utils.map_nested(function, data_struct, dict_only=True): the function is
\* applied to every value that is not a dict; an exception raised by the
\* function at a leaf leaves map_nested.  The calls without dict_only (lines
\* 105, 119, 140) map descriptions, whose leaves are TensorInfo and never
\* lists, so both forms walk them alike.
\* The function is given by its value at every leaf of the structure.
RECURSIVE MapLeaves(_, _)
MapLeaves(function, x) ==
  IF IsDict(x)
  THEN Dict([key \in DOMAIN x.d |-> MapLeaves(function, x.d[key])])
  ELSE function[x]

map_nested(function, data_struct) ==
  LET mapped == MapLeaves(function, data_struct)
  IN IF FirstRaise(Leaves(mapped)) # NoValue
     THEN FirstRaise(Leaves(mapped))
     ELSE mapped

\* utils.zip_dict(*dicts): the items of the dicts grouped by key; fails when
\* the dicts do not have the same keys.
zip_dict_fails(dicts) ==
  \E j \in 1..Len(dicts) :
    \/ ~IsDict(dicts[j])
    \/ DOMAIN dicts[j].d # DOMAIN dicts[1].d

(***************************************************************************)
(* The inner feature connectors (feature_lib): the capability the Sequence *)
(* wraps.  A feature is a nested dict whose leaves name a connector.       *)
(***************************************************************************)
ClassLabel == [k |-> "ClassLabel"]   \* names = ['a', 'b']

Tensor == [k |-> "Tensor"]           \* shape = (None, 2), dtype float32

Image == [k |-> "Image"]             \* shape = (None, None, 1), encoded as bytes

Custom == [k |-> "Custom"]           \* a connector whose output follows its input

\* feature.get_tensor_info() of a leaf connector
InnerLeafTensorInfo(f) ==
  CASE f.k = "ClassLabel" -> TensorInfo(<<>>, "int64")
    [] f.k = "Tensor"     -> TensorInfo(<<None, 2>>, "float32")
    [] f.k = "Image"      -> TensorInfo(<<None, None, 1>>, "uint8")
    [] f.k = "Custom"     -> Dict("u" :> TensorInfo(<<>>, "int64"))

\* feature.get_serialized_info() of a leaf connector
InnerLeafSerializedInfo(f) ==
  CASE f.k = "ClassLabel" -> TensorInfo(<<>>, "int64")
    [] f.k = "Tensor"     -> TensorInfo(<<None, 2>>, "float32")
    [] f.k = "Image"      -> TensorInfo(<<>>, "string")
    [] f.k = "Custom"     -> Dict("u" :> TensorInfo(<<>>, "int64"))

RECURSIVE InnerTensorInfo(_)
InnerTensorInfo(f) ==
  IF IsDict(f)
  THEN Dict([key \in DOMAIN f.d |-> InnerTensorInfo(f.d[key])])
  ELSE InnerLeafTensorInfo(f)

RECURSIVE InnerSerializedInfo(_)
InnerSerializedInfo(f) ==
  IF IsDict(f)
  THEN Dict([key \in DOMAIN f.d |-> InnerSerializedInfo(f.d[key])])
  ELSE InnerLeafSerializedInfo(f)

\* feature.encode_example(value) of a leaf connector
InnerLeafEncode(f, x) ==
  CASE f.k = "ClassLabel" ->
         IF x.k = "str" /\ x.s = "a" THEN PyInt(0)
         ELSE IF x.k = "str" /\ x.s = "b" THEN PyInt(1)
         ELSE Raise("ValueError", "Invalid label", <<>>, x.k)
    [] f.k = "Tensor" ->
         IF IsNdarray(x) /\ Len(x.shape) = 2 /\ x.shape[2] = 2 THEN x
         ELSE Raise("ValueError", "Shape mismatch", <<>>, x.k)
    [] f.k = "Image" ->
         IF IsNdarray(x) /\ Len(x.shape) = 3 /\ Len(x.data) = 1
         THEN PyBytes(100 + x.data[1])
         ELSE Raise("ValueError", "Invalid image", <<>>, x.k)
    [] f.k = "Custom" ->
         IF x.k # "str" THEN Raise("ValueError", "Invalid value", <<>>, x.k)
         ELSE CASE x.s = "m1"   -> Dict("u" :> PyInt(1))
                [] x.s = "m2"   -> Dict("u" :> PyInt(2))
                [] x.s = "w"    -> Dict("w" :> PyInt(3))
                [] x.s = "leaf" -> PyInt(7)
                [] OTHER        -> Raise("ValueError", "Invalid value", <<>>, x.s)

\* feature.encode_example(record): a FeaturesDict encodes the value of every
\* key with the connector of that key.
RECURSIVE InnerEncode(_, _)
InnerEncode(f, x) ==
  IF IsDict(f)
  THEN IF ~IsDict(x) \/ DOMAIN x.d # DOMAIN f.d
       THEN Raise("KeyError", "Keys do not match", <<>>, x.k)
       ELSE LET enc == Dict([key \in DOMAIN f.d |-> InnerEncode(f.d[key], x.d[key])])
                bad == FirstRaise([j \in 1..Len(OrderedKeys(DOMAIN f.d)) |->
                                     enc.d[OrderedKeys(DOMAIN f.d)[j]]])
            IN IF bad # NoValue THEN bad ELSE enc
  ELSE InnerLeafEncode(f, x)

\* feature.decode_example(tensor) of a leaf connector
InnerLeafDecode(f, t) ==
  CASE f.k = "ClassLabel" -> t
    [] f.k = "Tensor"     -> t
    [] f.k = "Image"      -> Ndarray(<<1, 1, 1>>, <<t.data[1] - 100>>)
    [] f.k = "Custom"     -> t

RECURSIVE InnerDecode(_, _)
InnerDecode(f, t) ==
  IF IsDict(f)
  THEN Dict([key \in DOMAIN f.d |-> InnerDecode(f.d[key], t.d[key])])
  ELSE InnerLeafDecode(f, t)

(***************************************************************************)
(* Sequence.get_tensor_info, Sequence.get_serialized_info                  *)
(***************************************************************************)
\* Mutation: the length is put behind the shape.
add_length_dim_behind(self_length, tensor_info) ==
  [tensor_info EXCEPT !.shape = tensor_info.shape \o <<self_length>>]

\* add_length_dim of get_tensor_info: a copy of the TensorInfo whose shape
\* has the length in front.
get_tensor_info_add_length_dim(self_length, tensor_info) ==
  [tensor_info EXCEPT !.shape = <<self_length>> \o tensor_info.shape]

get_tensor_info(self_feature, self_length) ==
  LET tensor_info == InnerTensorInfo(self_feature)
  IN map_nested([ti \in LeafSet(tensor_info) |->
                   get_tensor_info_add_length_dim(self_length, ti)],
                tensor_info)

\* add_length_dim of get_serialized_info: a new TensorInfo
get_serialized_info_add_length_dim(self_length, tensor_info) ==
  TensorInfo(<<self_length>> \o tensor_info.shape, tensor_info.dtype)

get_serialized_info(self_feature, self_length) ==
  LET tensor_info == InnerSerializedInfo(self_feature)
  IN map_nested([ti \in LeafSet(tensor_info) |->
                   get_serialized_info_add_length_dim(self_length, ti)],
                tensor_info)

(***************************************************************************)
(* stack_arrays, np_to_list, _transpose_dict_list                          *)
(***************************************************************************)
\* np.asanyarray(e): a value that is no array becomes a 0-d array
AsArray(e) == IF IsNdarray(e) THEN e ELSE Ndarray(<<>>, <<e>>)

\* Mutation: the arrays are stacked last to first.
np_stack_reversed(arrays) ==
  IF \A j \in 1..Len(arrays) : AsArray(arrays[j]).shape = AsArray(arrays[1]).shape
  THEN Ndarray(<<Len(arrays)>> \o AsArray(arrays[1]).shape,
               Flatten([j \in 1..Len(arrays) |-> AsArray(Reverse(arrays)[j]).data]))
  ELSE Raise("ValueError", "all input arrays must have the same shape", <<>>, "")

\* np.stack(arrays): a new leading axis; the arrays must have one shape
np_stack(arrays) ==
  IF \A j \in 1..Len(arrays) : AsArray(arrays[j]).shape = AsArray(arrays[1]).shape
  THEN Ndarray(<<Len(arrays)>> \o AsArray(arrays[1]).shape,
               Flatten([j \in 1..Len(arrays) |-> AsArray(arrays[j]).data]))
  ELSE Raise("ValueError", "all input arrays must have the same shape", <<>>, "")

\* Mutation: the values are merged last to first.
stack_arrays_reversed(elems) ==
  IF IsNdarray(elems[1]) THEN np_stack(Reverse(elems)) ELSE List(Reverse(elems))

\* Mutation: the last step is left out of the merge.
stack_arrays_drop_last(elems) == List(SubSeq(elems, 1, Len(elems) - 1))

stack_arrays(elems) ==
  IF IsNdarray(elems[1]) THEN np_stack(elems) ELSE List(elems)

\* Mutation: a tuple is refused.
np_to_list_no_tuple(elem) ==
  IF elem.k = "list" THEN elem
  ELSE IF elem.k = "ndarray" /\ elem.shape # <<>>
       THEN List([i \in 1..elem.shape[1] |-> ArrayItem(elem, i)])
  ELSE Raise("ValueError",
             "Input elements of a sequence should be either a numpy array, a python list or tuple",
             <<>>, elem.k)

np_to_list(elem) ==
  IF elem.k = "list" THEN elem
  ELSE IF elem.k = "tuple" THEN List(elem.v)
  ELSE IF elem.k = "ndarray"
       THEN IF elem.shape = <<>>
            THEN Raise("TypeError", "iteration over a 0-d array", <<>>, "")
            ELSE List([i \in 1..elem.shape[1] |-> ArrayItem(elem, i)])
  ELSE Raise("ValueError",
             "Input elements of a sequence should be either a numpy array, a python list or tuple",
             <<>>, elem.k)

\* update_length over the leaves, in order: the first leaf sets the length,
\* the first later leaf of another length raises.
update_length(leaves) ==
  IF \E j \in 1..Len(leaves) : Len(leaves[j].v) # Len(leaves[1].v)
  THEN LET j == CHOOSE j \in 1..Len(leaves) :
                  /\ Len(leaves[j].v) # Len(leaves[1].v)
                  /\ \A h \in 1..(j - 1) : Len(leaves[h].v) = Len(leaves[1].v)
       IN Raise("ValueError",
                "The length of all elements of one sequence should be the same",
                <<Len(leaves[1].v), Len(leaves[j].v)>>, "")
  ELSE PyInt(Len(leaves[1].v))

\* Mutation: the positions are read from the end.
ElemAt_from_end(elem, i) == elem.v[Len(elem.v) - i + 1]

\* elem[i] of step 3 (range(length) is 0-based, the model's positions 1-based)
ElemAt(elem, i) == elem.v[i]

_transpose_dict_list(dict_list) ==
  LET unstacked == map_nested([elem \in LeafSet(dict_list) |-> np_to_list(elem)],
                              dict_list)
  IN IF IsRaise(unstacked) THEN unstacked
     ELSE LET len == update_length(Leaves(unstacked))
          IN IF IsRaise(len) THEN len
             ELSE List([i \in 1..len.v |->
                          map_nested([elem \in LeafSet(unstacked) |-> ElemAt(elem, i)],
                                     unstacked)])

(***************************************************************************)
(* Sequence.encode_example                                                 *)
(***************************************************************************)
\* Mutation: only a sequence longer than the static length is refused.
LengthCheckFails_longer_only(self_length, elements) ==
  self_length # None /\ Len(elements) > self_length

\* lines 126-130
LengthCheckFails(self_length, elements) ==
  self_length # None /\ Len(elements) # self_length

LengthError(self_length, elements) ==
  Raise("ValueError", "Input sequence length do not match the defined one",
        <<Len(elements), self_length>>, "")

\* tf.DType.as_numpy_dtype
as_numpy_dtype(dtype) == IF dtype = "string" THEN "object" ELSE dtype

\* Mutation: only the leading dimension is set to 0.
_build_empty_np_leading_only(serialized_info) ==
  [k |-> "ndarray",
   shape |-> <<0>> \o Tail(serialized_info.shape),
   data |-> <<>>,
   dtype |-> as_numpy_dtype(serialized_info.dtype)]

_build_empty_np(serialized_info) ==
  [k |-> "ndarray",
   shape |-> [j \in 1..Len(serialized_info.shape) |->
                IF serialized_info.shape[j] = None \/ serialized_info.shape[j] = 0
                THEN 0 ELSE serialized_info.shape[j]],
   data |-> <<>>,
   dtype |-> as_numpy_dtype(serialized_info.dtype)]

\* lines 133-140, the value returned for an empty sequence
EmptyResult(self_feature, self_length) ==
  LET serialized_info == get_serialized_info(self_feature, self_length)
  IN map_nested([ti \in LeafSet(serialized_info) |-> _build_empty_np(ti)],
                serialized_info)

\* The dict of line 151 is built key by key; an exception raised for a key
\* leaves _stack_nested.  Which of several failing keys raises first follows
\* the iteration order of a set and is not modelled: the key check comes first.
RECURSIVE _stack_nested(_)
_stack_nested(elements) ==
  IF IsDict(elements[1])
  THEN IF zip_dict_fails(elements)
       THEN Raise("KeyError", "zip_dict", <<>>, "")
       ELSE LET keys    == OrderedKeys(DOMAIN elements[1].d)
                stacked == [key \in DOMAIN elements[1].d |->
                              _stack_nested([j \in 1..Len(elements) |->
                                               elements[j].d[key]])]
                bad     == FirstRaise([j \in 1..Len(keys) |-> stacked[keys[j]]])
            IN IF bad # NoValue THEN bad ELSE Dict(stacked)
  ELSE stack_arrays(elements)

\* The outcome of a whole call of encode_example: the value returned (or
\* NoValue), the exception raised (or NoValue) and the records handed to the
\* inner feature, in order.
Outcome(ret, exc, given) == [ret |-> ret, exc |-> exc, calls |-> given]

encode_example(self_feature, self_length, example_dict) ==
  LET transposed == _transpose_dict_list(example_dict)
  IN IF IsRaise(transposed) THEN Outcome(NoValue, transposed, <<>>)
     ELSE LET elements == transposed.v
          IN IF LengthCheckFails(self_length, elements)
             THEN Outcome(NoValue, LengthError(self_length, elements), <<>>)
             ELSE IF elements = <<>>
             THEN Outcome(EmptyResult(self_feature, self_length), NoValue, <<>>)
             ELSE LET encoded == [i \in 1..Len(elements) |->
                                    InnerEncode(self_feature, elements[i])]
                  IN IF FirstRaise(encoded) # NoValue
                     THEN LET bad == CHOOSE i \in 1..Len(encoded) :
                                       /\ IsRaise(encoded[i])
                                       /\ \A h \in 1..(i - 1) : ~IsRaise(encoded[h])
                          IN Outcome(NoValue, encoded[bad], SubSeq(elements, 1, bad))
                     ELSE LET merged == _stack_nested(encoded)
                          IN IF IsRaise(merged)
                             THEN Outcome(NoValue, merged, elements)
                             ELSE Outcome(merged, NoValue, elements)

(***************************************************************************)
(* Sequence.decode_example: tf.map_fn over the leading dimension           *)
(***************************************************************************)
parallel_iterations == 10

\* What the reader hands to decode_example for a value encode_example
\* returned: every leaf a tensor with the sequence dimension in front.
AsTensor(x) ==
  IF IsNdarray(x) THEN Ndarray(x.shape, x.data)
  ELSE IF x.k = "list" THEN Ndarray(<<Len(x.v)>>, [j \in 1..Len(x.v) |-> x.v[j].v])
  ELSE Ndarray(<<>>, <<x.v>>)

RECURSIVE AsTensors(_)
AsTensors(x) ==
  IF IsDict(x) THEN Dict([key \in DOMAIN x.d |-> AsTensors(x.d[key])])
  ELSE AsTensor(x)

\* A value of encode_example the writer can serialize: the topology of the
\* serialized info, every leaf an array or a list of ints or bytes.
RECURSIVE Serializable(_, _)
Serializable(x, sinfo) ==
  IF IsDict(sinfo)
  THEN /\ IsDict(x)
       /\ DOMAIN x.d = DOMAIN sinfo.d
       /\ \A key \in DOMAIN sinfo.d : Serializable(x.d[key], sinfo.d[key])
  ELSE \/ IsNdarray(x)
       \/ /\ x.k = "list"
          /\ \A j \in 1..Len(x.v) : x.v[j].k \in {"int", "bytes"}

\* The number of iterations: the leading dimension of the first tensor
MapFnLen(elems) == Leaves(elems)[1].shape[1]

\* elems_ta.read(i): position i of every tensor
MapFnElem(elems, i) == map_nested([t \in LeafSet(elems) |-> ArrayItem(t, i)], elems)

\* Mutation: the value is written behind the values written so far.
TensorArrayWrite_append(ta, i, value) ==
  [ta EXCEPT ![CHOOSE j \in 1..Len(ta) :
                 ta[j] = NoValue /\ \A h \in 1..(j - 1) : ta[h] # NoValue] = value]

\* accs_ta.write(i, value)
TensorArrayWrite(ta, i, value) == [ta EXCEPT ![i] = value]

\* accs_ta.stack() of a non-empty TensorArray
RECURSIVE TensorArrayStack(_)
TensorArrayStack(outs) ==
  IF IsDict(outs[1])
  THEN Dict([key \in DOMAIN outs[1].d |->
               TensorArrayStack([j \in 1..Len(outs) |-> outs[j].d[key]])])
  ELSE Ndarray(<<Len(outs)>> \o outs[1].shape,
               Flatten([j \in 1..Len(outs) |-> outs[j].data]))

\* accs_ta.stack() of an empty TensorArray: the element shape of the dtype
\* structure, its unknown dimensions of size 0
EmptyStack(tinfo) ==
  map_nested([ti \in LeafSet(tinfo) |->
                Ndarray(<<0>> \o [j \in 1..Len(ti.shape) |->
                                    IF ti.shape[j] = None THEN 0 ELSE ti.shape[j]],
                        <<>>)],
             tinfo)

(***************************************************************************)
(* The features and the examples of the model                              *)
(***************************************************************************)
\* Every feature has at least one leaf; the lengths are 0..MaxLen.
Frames == Image

Video == Dict(("frame" :> Dict("rgb" :> Tensor)) @@ ("action" :> ClassLabel))

Features == {Frames, Video, Custom}

RawValues(f) ==
  CASE f.k = "ClassLabel" -> {PyStr("a"), PyStr("x")}
    [] f.k = "Tensor"     -> {Ndarray(<<1, 2>>, <<0, 1>>), Ndarray(<<1, 2>>, <<1, 0>>),
                              Ndarray(<<2, 2>>, <<0, 1, 1, 0>>)}
    [] f.k = "Image"      -> {Ndarray(<<1, 1, 1>>, <<0>>), Ndarray(<<1, 1, 1>>, <<1>>)}
    [] f.k = "Custom"     -> {PyStr("m1"), PyStr("m2"), PyStr("w"), PyStr("leaf")}

\* The per-step records of a feature
RECURSIVE Records(_)
Records(f) ==
  IF IsDict(f)
  THEN {Dict(g) : g \in {h \in [DOMAIN f.d -> UNION {Records(f.d[key]) : key \in DOMAIN f.d}] :
                           \A key \in DOMAIN f.d : h[key] \in Records(f.d[key])}}
  ELSE RawValues(f)

\* np.stack of the values of a leaf when they are arrays of one shape, the
\* list of the values otherwise
Stacked(values) ==
  IF /\ values # <<>>
     /\ \A j \in 1..Len(values) : IsNdarray(values[j]) /\ values[j].shape = values[1].shape
  THEN Ndarray(<<Len(values)>> \o values[1].shape,
               Flatten([j \in 1..Len(values) |-> values[j].data]))
  ELSE List(values)

LeafForm(form, values) ==
  CASE form = "tuple"   -> Tuple(values)
    [] form = "ndarray" -> Stacked(values)
    [] form = "str"     -> PyStr("left")
    [] form = "short"   -> List(SubSeq(values, 1, Len(values) - 1))
    [] OTHER            -> List(values)

Forms == {"list", "tuple", "ndarray", "str", "short"}

LeafKinds == {"ClassLabel", "Tensor", "Image", "Custom"}

\* The dict of lists of the records, the leaves of connector `kind` in `form`
RECURSIVE DictOfLists(_, _, _, _)
DictOfLists(f, recs, kind, form) ==
  IF IsDict(f)
  THEN Dict([key \in DOMAIN f.d |->
               DictOfLists(f.d[key], [j \in 1..Len(recs) |-> recs[j].d[key]], kind, form)])
  ELSE IF f.k = kind THEN LeafForm(form, recs) ELSE List(recs)

\* The dict whose values are the lists of the records' values, one level down
ListOfDictsBelow(f, recs) ==
  Dict([key \in DOMAIN f.d |-> List([j \in 1..Len(recs) |-> recs[j].d[key]])])

ExamplesOf(f, recs) ==
  {DictOfLists(f, recs, kind, form) : kind \in LeafKinds, form \in Forms}
    \cup (IF IsDict(f) THEN {List(recs), Tuple(recs), ListOfDictsBelow(f, recs)} ELSE {})

Examples(f) ==
  UNION {ExamplesOf(f, recs) : recs \in UNION {[1..n -> Records(f)] : n \in 0..MaxLen}}

(***************************************************************************)
(* The state machine                                                       *)
(***************************************************************************)
Init ==
  /\ feature \in Features
  /\ length \in {None} \cup 0..MaxLen
  /\ pc = "idle"
  /\ example = NoValue
  /\ sequence_elements = <<>>
  /\ next_elem = 0
  /\ calls = <<>>
  /\ result = NoValue
  /\ error = NoValue
  /\ info = NoValue
  /\ tfexample_dict = NoValue
  /\ started = 0
  /\ inflight = {}
  /\ accs_ta = <<>>
  /\ decoded = NoValue

EncodeVars == <<example, sequence_elements, next_elem, calls, result, error>>

DecodeVars == <<tfexample_dict, started, inflight, accs_ta, decoded>>

\* Sequence.get_tensor_info()
GetTensorInfo ==
  /\ pc = "idle"
  /\ info' = get_tensor_info(feature, length)
  /\ pc' = "tensor_info"
  /\ UNCHANGED <<feature, length, EncodeVars, DecodeVars>>

\* Sequence.get_serialized_info()
GetSerializedInfo ==
  /\ pc = "idle"
  /\ info' = get_serialized_info(feature, length)
  /\ pc' = "serialized_info"
  /\ UNCHANGED <<feature, length, EncodeVars, DecodeVars>>

\* encode_example, line 123: the transposition of the argument
Transpose(example_dict) ==
  /\ example' = example_dict
  /\ LET transposed == _transpose_dict_list(example_dict)
     IN IF IsRaise(transposed)
        THEN /\ error' = transposed
             /\ pc' = "raised"
             /\ UNCHANGED sequence_elements
        ELSE /\ sequence_elements' = transposed.v
             /\ pc' = "check"
             /\ UNCHANGED error
  /\ UNCHANGED <<feature, length, next_elem, calls, result, info, DecodeVars>>

\* Sequence.encode_example(example_dict)
EncodeCall ==
  /\ pc = "idle"
  /\ \E example_dict \in Examples(feature) : Transpose(example_dict)

\* encode_example, lines 125-133: the static length, then the empty sequence
CheckLength ==
  /\ pc = "check"
  /\ IF LengthCheckFails(length, sequence_elements)
     THEN /\ error' = LengthError(length, sequence_elements)
          /\ pc' = "raised"
          /\ UNCHANGED next_elem
     ELSE /\ pc' = IF sequence_elements = <<>> THEN "empty" ELSE "encode"
          /\ next_elem' = 1
          /\ UNCHANGED error
  /\ UNCHANGED <<feature, length, example, sequence_elements, calls, result, info,
                 DecodeVars>>

\* encode_example, lines 134-140
BuildEmpty ==
  /\ pc = "empty"
  /\ result' = EmptyResult(feature, length)
  /\ pc' = "returned"
  /\ UNCHANGED <<feature, length, example, sequence_elements, next_elem, calls, error,
                 info, DecodeVars>>

\* encode_example, lines 143-146: one element of the list comprehension
EncodeElem ==
  /\ pc = "encode"
  /\ calls' = Append(calls, sequence_elements[next_elem])
  /\ LET encoded == InnerEncode(feature, sequence_elements[next_elem])
     IN IF IsRaise(encoded)
        THEN /\ error' = encoded
             /\ pc' = "raised"
             /\ UNCHANGED <<sequence_elements, next_elem>>
        ELSE /\ sequence_elements' = [sequence_elements EXCEPT ![next_elem] = encoded]
             /\ next_elem' = next_elem + 1
             /\ pc' = IF next_elem = Len(sequence_elements) THEN "stack" ELSE "encode"
             /\ UNCHANGED error
  /\ UNCHANGED <<feature, length, example, result, info, DecodeVars>>

\* encode_example, lines 149-158
StackNested ==
  /\ pc = "stack"
  /\ LET merged == _stack_nested(sequence_elements)
     IN IF IsRaise(merged)
        THEN /\ error' = merged
             /\ pc' = "raised"
             /\ UNCHANGED result
        ELSE /\ result' = merged
             /\ pc' = "returned"
             /\ UNCHANGED error
  /\ UNCHANGED <<feature, length, example, sequence_elements, next_elem, calls, info,
                 DecodeVars>>

\* decode_example is called with what was written for the encoded example;
\* tf.map_fn unstacks its argument and creates the output TensorArray
MapFnCall ==
  /\ pc = "returned"
  /\ Serializable(result, get_serialized_info(feature, length))
  /\ tfexample_dict' = AsTensors(result)
  /\ started' = 0
  /\ inflight' = {}
  /\ accs_ta' = [i \in 1..MapFnLen(AsTensors(result)) |-> NoValue]
  /\ pc' = "map_fn"
  /\ UNCHANGED <<feature, length, EncodeVars, info, decoded>>

\* tf.map_fn: the while loop enters its next iteration, at most
\* parallel_iterations of them running
MapFnEnter ==
  /\ pc = "map_fn"
  /\ started < MapFnLen(tfexample_dict)
  /\ Cardinality(inflight) < parallel_iterations
  /\ started' = started + 1
  /\ inflight' = inflight \cup {started + 1}
  /\ UNCHANGED <<feature, length, pc, EncodeVars, info, tfexample_dict, accs_ta, decoded>>

\* tf.map_fn: a running iteration decodes its element and writes the output
MapFnComplete(i) ==
  /\ pc = "map_fn"
  /\ i \in inflight
  /\ accs_ta' = TensorArrayWrite(accs_ta, i,
                                 InnerDecode(feature, MapFnElem(tfexample_dict, i)))
  /\ inflight' = inflight \ {i}
  /\ UNCHANGED <<feature, length, pc, EncodeVars, info, tfexample_dict, started, decoded>>

\* tf.map_fn: the loop is over, the outputs are stacked
MapFnStack ==
  /\ pc = "map_fn"
  /\ started = MapFnLen(tfexample_dict)
  /\ inflight = {}
  /\ decoded' = IF accs_ta = <<>>
                THEN EmptyStack(InnerTensorInfo(feature))
                ELSE TensorArrayStack(accs_ta)
  /\ pc' = "decoded"
  /\ UNCHANGED <<feature, length, EncodeVars, info, tfexample_dict, started, inflight,
                 accs_ta>>

Next ==
  \/ GetTensorInfo
  \/ GetSerializedInfo
  \/ EncodeCall
  \/ CheckLength
  \/ BuildEmpty
  \/ EncodeElem
  \/ StackNested
  \/ MapFnCall
  \/ MapFnEnter
  \/ \E i \in 1..MaxLen : MapFnComplete(i)
  \/ MapFnStack

Spec == Init /\ [][Next]_vars

(***************************************************************************)
(* Vocabulary of the properties.  These definitions restate what the       *)
(* properties speak of directly from the example, the feature and the      *)
(* values of the state; the operators of the code above are not used to    *)
(* compute them.                                                           *)
(***************************************************************************)
Returned == pc \in {"returned", "map_fn", "decoded"}

Finished == pc = "raised" \/ Returned

IsSequence(x) ==
  \/ x.k \in {"list", "tuple"}
  \/ x.k = "ndarray" /\ x.shape # <<>>

\* The elements of a list, a tuple or a stacked array
Items(x) ==
  IF x.k = "ndarray" THEN [i \in 1..x.shape[1] |-> ArrayItem(x, i)] ELSE x.v

AllSequences(x) == \A j \in 1..Len(Leaves(x)) : IsSequence(Leaves(x)[j])

LeafLengths(x) == {Len(Items(Leaves(x)[j])) : j \in 1..Len(Leaves(x))}

\* Every leaf is a sequence of n values
CommonLength(x, n) == AllSequences(x) /\ LeafLengths(x) = {n}

\* The example is a valid input: sequences of one length that the static
\* length, if any, allows
ValidExample == 
  /\ example # NoValue
  /\ \E n \in 0..MaxLen : CommonLength(example, n) /\ length \in {None, n}

\* The record of position i: at every leaf the i-th element of its sequence
RECURSIVE RecordAt(_, _)
RecordAt(x, i) ==
  IF IsDict(x) THEN Dict([key \in DOMAIN x.d |-> RecordAt(x.d[key], i)])
  ELSE Items(x)[i]

\* Two values have one topology: the same keys and the same nesting
RECURSIVE SameTopology(_, _)
SameTopology(x, y) ==
  IF IsDict(x)
  THEN /\ IsDict(y)
       /\ DOMAIN x.d = DOMAIN y.d
       /\ \A key \in DOMAIN x.d : SameTopology(x.d[key], y.d[key])
  ELSE ~IsDict(y)

AllSameTopology(outs) == \A j \in 1..Len(outs) : SameTopology(outs[1], outs[j])

IsLengthMismatch(e) ==
  /\ IsRaise(e)
  /\ e.msg \in {"The length of all elements of one sequence should be the same",
                "Input sequence length do not match the defined one"}

\* The model of the steps agrees with the model of the whole call.
StepsAgree ==
  Finished => Outcome(result, error, calls) = encode_example(feature, length, example)

(***************************************************************************)
(* C2  Shape derivation                                                    *)
(***************************************************************************)
\* The derived description has the keys and the nesting of the inner one;
\* a leaf of inner shape S has shape (lead,) + S and the inner element type.
RECURSIVE DerivedFrom(_, _, _)
DerivedFrom(inner, derived, lead) ==
  IF IsDict(inner)
  THEN /\ IsDict(derived)
       /\ DOMAIN derived.d = DOMAIN inner.d
       /\ \A key \in DOMAIN inner.d : DerivedFrom(inner.d[key], derived.d[key], lead)
  ELSE /\ derived.k = "TensorInfo"
       /\ Len(derived.shape) = Len(inner.shape) + 1
       /\ derived.shape[1] = lead
       /\ \A j \in 1..Len(inner.shape) : derived.shape[j + 1] = inner.shape[j]
       /\ derived.dtype = inner.dtype

\* C2: get_tensor_info() and get_serialized_info() return the structure of
\* the inner description (same keys, same nesting) in which every leaf of
\* inner shape S has shape (L,) + S when length = L is configured and
\* (unknown,) + S when length is unset, the element type unchanged.
C2_ShapeDerivation ==
  /\ pc = "tensor_info" =>
       DerivedFrom(InnerTensorInfo(feature), info, IF length = None THEN None ELSE length)
  /\ pc = "serialized_info" =>
       DerivedFrom(InnerSerializedInfo(feature), info,
                   IF length = None THEN None ELSE length)

C2_Witness ==
  /\ pc = "tensor_info"
  /\ feature = Video
  /\ length = 2
  /\ info.d["frame"].d["rgb"].shape = <<2, None, 2>>

(***************************************************************************)
(* C3  Length enforcement                                                  *)
(***************************************************************************)
\* The example breaks the length rules: its leaves are sequences, and two of
\* them have different lengths or their common length is not the static one.
LeavesDiffer == AllSequences(example) /\ Cardinality(LeafLengths(example)) > 1

StaticDiffers ==
  /\ AllSequences(example)
  /\ length # None
  /\ \E n \in 0..MaxLen : LeafLengths(example) = {n} /\ n # length

\* C3: encode fails with a LengthMismatch error whenever two leaves of the
\* example have different lengths and whenever a static length is configured
\* and the common leaf length differs from it; the inner encoder is never
\* invoked and nothing is returned.  (Leaf lengths are those of leaves that
\* are lists, tuples or arrays: a leaf of another type has no length.)
C3_LengthEnforcement ==
  (example # NoValue /\ (LeavesDiffer \/ StaticDiffers)) =>
     /\ calls = <<>>
     /\ result = NoValue
     /\ pc \in {"check", "raised"}
     /\ pc = "raised" => IsLengthMismatch(error)
     /\ pc = "check" => (StaticDiffers /\ ENABLED CheckLength)
     /\ LeavesDiffer => pc = "raised"

C3_Witness ==
  /\ pc = "raised"
  /\ IsDict(example)
  /\ LeavesDiffer
  /\ length = None
  /\ error.got = <<2, 1>>

(***************************************************************************)
(* C4  Empty sequence result                                               *)
(***************************************************************************)
AllLeavesEmpty == example # NoValue /\ CommonLength(example, 0)

\* The value has the topology of the description; every leaf is an empty
\* array of the declared shape, unknown dimensions 0, and declared type.
RECURSIVE EmptyOf(_, _)
EmptyOf(value, sinfo) ==
  IF IsDict(sinfo)
  THEN /\ IsDict(value)
       /\ DOMAIN value.d = DOMAIN sinfo.d
       /\ \A key \in DOMAIN sinfo.d : EmptyOf(value.d[key], sinfo.d[key])
  ELSE /\ IsNdarray(value)
       /\ value.data = <<>>
       /\ Len(value.shape) = Len(sinfo.shape)
       /\ \A j \in 1..Len(sinfo.shape) :
            value.shape[j] = IF sinfo.shape[j] = None THEN 0 ELSE sinfo.shape[j]
       /\ value.shape[1] = 0
       /\ value.dtype = as_numpy_dtype(sinfo.dtype)

\* C4 as stated: when every leaf of the example has length 0, encode returns
\* the structure of empty arrays and the inner encoder is not invoked.
C4_Original ==
  (AllLeavesEmpty /\ Finished) =>
     /\ Returned
     /\ EmptyOf(result, get_serialized_info(feature, length))
     /\ calls = <<>>

\* C4 amended: when every leaf of the example has length 0 and the static
\* length is unset or 0, encode returns a structure with the topology of the
\* serialized description whose leaves are empty arrays of the declared
\* shape (unknown dimensions, the leading one included, 0) and declared
\* element type, and the inner encoder is invoked zero times; with a static
\* length L > 0 the call raises the LengthMismatch error instead.
C4_EmptyResult ==
  /\ (AllLeavesEmpty /\ length \in {None, 0}) =>
        /\ calls = <<>>
        /\ pc \in {"check", "empty"} \/ Returned
        /\ Returned => EmptyOf(result, get_serialized_info(feature, length))
  /\ (AllLeavesEmpty /\ length \notin {None, 0} /\ Finished) =>
        /\ pc = "raised"
        /\ IsLengthMismatch(error)
        /\ calls = <<>>

C4_Witness ==
  /\ pc = "returned"
  /\ AllLeavesEmpty
  /\ feature = Video
  /\ length = None
  /\ result.d["frame"].d["rgb"].shape = <<0, 0, 2>>

(***************************************************************************)
(* C5  No partial success                                                  *)
(***************************************************************************)
\* The leading size of a leaf of a returned value
LeadingSize(x) == IF IsNdarray(x) THEN x.shape[1] ELSE Len(x.v)

\* The value returned covers n steps at every leaf
Covers(value, n) ==
  \A j \in 1..Len(Leaves(value)) : LeadingSize(Leaves(value)[j]) = n

\* A call returns a complete output or raises and returns nothing.
AllOrNothing ==
  /\ pc = "raised" => (result = NoValue /\ IsRaise(error))
  /\ Returned => /\ error = NoValue
                 /\ \E n \in 0..MaxLen : CommonLength(example, n) /\ Covers(result, n)
  /\ ~Finished => (result = NoValue /\ error = NoValue)

\* C5 as stated: for every configuration (length unset or any static length)
\* a call returns a complete output or raises and returns nothing, and a
\* call whose realized sequence length is zero never raises.
C5_Original ==
  /\ AllOrNothing
  /\ AllLeavesEmpty => pc # "raised"

\* C5 amended: a call returns a complete output covering all steps or raises
\* and returns nothing; a call whose realized sequence length is zero
\* succeeds when the static length is unset or 0, and raises the
\* LengthMismatch error when a static length L > 0 is configured.
C5_NoPartialSuccess ==
  /\ AllOrNothing
  /\ (AllLeavesEmpty /\ length \in {None, 0}) => pc # "raised"
  /\ (AllLeavesEmpty /\ length \notin {None, 0}) =>
        (pc \in {"check", "raised"} /\ (pc = "raised" => IsLengthMismatch(error)))

C5_Witness ==
  /\ pc = "returned"
  /\ AllLeavesEmpty
  /\ length = 0
  /\ example.k = "tuple"

(***************************************************************************)
(* C1  Round trip                                                          *)
(***************************************************************************)
\* Position i of a value whose leaves carry the sequence dimension in front
RECURSIVE StepOf(_, _)
StepOf(x, i) ==
  IF IsDict(x) THEN Dict([key \in DOMAIN x.d |-> StepOf(x.d[key], i)])
  ELSE ArrayItem(x, i)

\* The inner feature's decode(encode(record))
InnerRoundTrip(record) ==
  InnerDecode(feature, AsTensors(InnerEncode(feature, record)))

RECURSIVE MergedFrom(_, _)
MergedFrom(outs, merged) ==
  IF IsDict(outs[1])
  THEN /\ IsDict(merged)
       /\ DOMAIN merged.d = DOMAIN outs[1].d
       /\ \A key \in DOMAIN outs[1].d :
            MergedFrom([j \in 1..Len(outs) |-> outs[j].d[key]], merged.d[key])
  ELSE IF \A j \in 1..Len(outs) : IsNdarray(outs[j])
  THEN /\ IsNdarray(merged)
       /\ merged.shape = <<Len(outs)>> \o outs[1].shape
       /\ \A i \in 1..Len(outs) : ArrayItem(merged, i) = outs[i]
  ELSE /\ merged.k = "list"
       /\ Len(merged.v) = Len(outs)
       /\ \A i \in 1..Len(outs) : merged.v[i] = outs[i]

\* Every step has been encoded: sequence_elements holds the per-step outputs
AllEncoded == calls # <<>> /\ next_elem = Len(sequence_elements) + 1

\* Arrays at one leaf position have one shape
RECURSIVE SameShapes(_)
SameShapes(outs) ==
  IF IsDict(outs[1])
  THEN \A key \in DOMAIN outs[1].d : SameShapes([j \in 1..Len(outs) |-> outs[j].d[key]])
  ELSE \A j \in 1..Len(outs) :
         (IsNdarray(outs[1]) /\ IsNdarray(outs[j])) => outs[j].shape = outs[1].shape

C7_DecodeOrdering ==
  /\ pc \in {"map_fn", "decoded"} =>
       /\ Cardinality(inflight) <= parallel_iterations
       /\ \A i \in 1..Len(accs_ta) :
            \/ accs_ta[i] = NoValue /\ (i > started \/ i \in inflight)
            \/ accs_ta[i] = InnerDecode(feature, StepOf(tfexample_dict, i))
  /\ (pc = "decoded" /\ accs_ta # <<>>) =>
       /\ Covers(decoded, Len(accs_ta))
       /\ Covers(tfexample_dict, Len(accs_ta))
       /\ \A i \in 1..Len(accs_ta) :
            StepOf(decoded, i) = InnerDecode(feature, StepOf(tfexample_dict, i))

\* Iteration 2 has completed before iteration 1
C7_Witness ==
  /\ pc = "map_fn"
  /\ feature = Frames
  /\ Len(accs_ta) = 2
  /\ accs_ta[2] # NoValue
  /\ inflight = {1}
  /\ StepOf(tfexample_dict, 1) # StepOf(tfexample_dict, 2)

(***************************************************************************)
(* C8  Input representations                                               *)
(***************************************************************************)
\* The dict of lists equivalent to an example: a sequence of dicts becomes
\* the dict whose leaf at each position holds, at index i, the value that
\* dict i has there; a tuple or a stacked array becomes the list of its
\* elements.  A leaf that is no sequence is left as it is.
RECURSIVE DictOfListsOf(_, _)
DictOfListsOf(f, x) ==
  IF IsDict(f)
  THEN IF IsDict(x)
       THEN Dict([key \in DOMAIN f.d |-> DictOfListsOf(f.d[key], x.d[key])])
       ELSE IF x.k \in {"list", "tuple"}
       THEN Dict([key \in DOMAIN f.d |->
                    DictOfListsOf(f.d[key], List([j \in 1..Len(x.v) |-> x.v[j].d[key]]))])
       ELSE x
  ELSE IF IsSequence(x) THEN List(Items(x)) ELSE x

\* C8: encoding a list of per-step dicts, or an example with a tuple or a
\* stacked array at a leaf, has the outcome (the same output, or the same
\* error) of encoding the equivalent dict of lists.
C8_Representations ==
  (Finished /\ DictOfListsOf(feature, example) # example) =>
     LET other == encode_example(feature, length, DictOfListsOf(feature, example))
     IN /\ result = other.ret
        /\ error = other.exc

C8_Witness ==
  /\ pc = "returned"
  /\ feature = Video
  /\ example.k = "list"
  /\ Len(example.v) = 2
  /\ example.v[1] # example.v[2]
  /\ DictOfListsOf(feature, example) =
       Dict(("frame" :> Dict("rgb" :> List(<<example.v[1].d["frame"].d["rgb"],
                                             example.v[2].d["frame"].d["rgb"]>>)))
            @@ ("action" :> List(<<PyStr("a"), PyStr("a")>>)))

(***************************************************************************)
(* C9  Topology guard in the merge                                         *)
(***************************************************************************)
\* C9: whenever the per-step outputs of one call do not all have the same
\* topology, the merge fails with an error instead of returning a merged
\* structure.
C9_TopologyGuard ==
  (AllEncoded /\ Finished /\ ~AllSameTopology(sequence_elements)) => pc = "raised"

(***************************************************************************)
(* C10  Transposition and encode order                                     *)
(***************************************************************************)
\* C10: for a valid example of realized length L >= 1 the inner encode is
\* invoked in position order 1, 2, ..., the record of invocation i holding at
\* every leaf the i-th element of that leaf's sequence; it is invoked exactly
\* L times unless an invocation fails; after a failing invocation no other is
\* made and its error is the error of the call.
C10_EncodeOrder ==
  (ValidExample /\ ~AllLeavesEmpty) =>
     \E n \in 1..MaxLen :
       /\ CommonLength(example, n)
       /\ Len(calls) <= n
       /\ \A i \in 1..Len(calls) : calls[i] = RecordAt(example, i)
       /\ \A i \in 1..(Len(calls) - 1) : ~IsRaise(InnerEncode(feature, calls[i]))
       /\ (calls # <<>> /\ IsRaise(InnerEncode(feature, calls[Len(calls)]))) =>
            (pc = "raised" /\ error = InnerEncode(feature, calls[Len(calls)]))
       /\ (Finished /\ Len(calls) < n) =>
            (pc = "raised" /\ calls # <<>> /\ error = InnerEncode(feature, calls[Len(calls)]))
       /\ pc \in {"stack", "returned", "map_fn", "decoded"} => Len(calls) = n

C10_Witness ==
  /\ pc = "raised"
  /\ ValidExample
  /\ CommonLength(example, 2)
  /\ Len(calls) = 1
  /\ RecordAt(example, 1) # RecordAt(example, 2)
  /\ error.msg = "Invalid label"

====
